---- MODULE Spec2Model ----
(***************************************************************************)
(* State-machine model of tools/scopus_fetcher.py: the credential parser,  *)
(* the paginated search generator iter_search, the detail enrichment       *)
(* fetch_authors, the profile call fetch_author_profile, normalize, and    *)
(* the author loop of main with its exports and exit code.                 *)
(*                                                                         *)
(* Python values are encoded as follows.  A str is a sequence of           *)
(* one-character strings.  An optional value (None or a value, a dict key  *)
(* that may be missing) is a sequence of length 0 or 1: None is <<>> and   *)
(* the value v is <<v>>.                                                   *)
(***************************************************************************)
EXTENDS Integers, Sequences, FiniteSets, TLC

\* ------------------------------------------------------------------------
\* Program constants
\* ------------------------------------------------------------------------
PAGE == 25
KEYLEN == 32
TRIES == 4

\* ------------------------------------------------------------------------
\* Bounds of the model
\* ------------------------------------------------------------------------
\* i (the attempt index) is an unbounded Python int; the model keeps it in
\* 0..MaxAttempt by folding it back one full rotation of the pool.
MaxAttempt == 3
\* longest roster file, in rows
MaxRoster == 2
\* longest cover date, in characters, parts() is tried on exhaustively
MaxDateLen == 5

\* ------------------------------------------------------------------------
\* Python values
\* ------------------------------------------------------------------------
None == <<>>
Some(v) == <<v>>
IsNone(o) == o = <<>>
Val(o) == o[1]

\* x or "" for an optional str
OrEmpty(o) == IF IsNone(o) THEN <<>> ELSE Val(o)
\* truthiness of an optional str: None and "" are falsy
Truthy(o) == ~IsNone(o) /\ Val(o) # <<>>

\* the printable ASCII characters (less backslash and backquote), in
\* code-point order
Alphabet ==
  <<
     " ", "!", "\"", "#", "$", "%", "&", "'", "(", ")", "*", "+",
     ",", "-", ".", "/", "0", "1", "2", "3", "4", "5", "6", "7",
     "8", "9", ":", ";", "<", "=", ">", "?", "@", "A", "B", "C",
     "D", "E", "F", "G", "H", "I", "J", "K", "L", "M", "N", "O",
     "P", "Q", "R", "S", "T", "U", "V", "W", "X", "Y", "Z", "[",
     "]", "^", "_", "a", "b", "c", "d", "e", "f", "g",
     "h", "i", "j", "k", "l", "m", "n", "o", "p", "q", "r", "s",
     "t", "u", "v", "w", "x", "y", "z", "{", "|", "}", "~" >>

Ord(c) == CHOOSE k \in 1..Len(Alphabet) : Alphabet[k] = c

DigitChars == <<"0", "1", "2", "3", "4", "5", "6", "7", "8", "9">>
IsDigit(c) == \E k \in 1..10 : DigitChars[k] = c
DigitVal(c) == (CHOOSE k \in 1..10 : DigitChars[k] = c) - 1

UpperChars ==
  <<"A", "B", "C", "D", "E", "F", "G", "H", "I", "J", "K", "L",
    "M", "N", "O", "P", "Q", "R", "S", "T", "U", "V", "W", "X", "Y", "Z">>
LowerChars ==
  <<"a", "b", "c", "d", "e", "f", "g", "h", "i", "j", "k", "l",
    "m", "n", "o", "p", "q", "r", "s", "t", "u", "v", "w", "x", "y", "z">>
\* str.lower() on one character
LowerChar(c) ==
  IF \E k \in 1..Len(UpperChars) : UpperChars[k] = c
  THEN LowerChars[CHOOSE k \in 1..Len(UpperChars) : UpperChars[k] = c]
  ELSE c
\* str.lower()
Lower(s) == [k \in 1..Len(s) |-> LowerChar(s[k])]

\* [0-9a-fA-F]
IsHexChar(c) == c \in {"0", "1", "2", "3", "4", "5", "6", "7", "8", "9",
                       "a", "b", "c", "d", "e", "f",
                       "A", "B", "C", "D", "E", "F"}

\* str.isdigit(): non-empty and all digits
IsDigitStr(s) == Len(s) > 0 /\ \A k \in 1..Len(s) : IsDigit(s[k])

RECURSIVE ToInt(_)
\* int(s) for a digit string
ToInt(s) ==
  IF Len(s) = 0 THEN 0
  ELSE 10 * ToInt(SubSeq(s, 1, Len(s) - 1)) + DigitVal(s[Len(s)])

RECURSIVE ToStr(_)
\* str(n) for n >= 0
ToStr(n) ==
  IF n < 10 THEN <<DigitChars[n + 1]>>
  ELSE ToStr(n \div 10) \o <<DigitChars[(n % 10) + 1]>>

\* a < b for str, by code point, a proper prefix being smaller
RECURSIVE StrLess(_, _)
StrLess(a, b) ==
  IF Len(b) = 0 THEN FALSE
  ELSE IF Len(a) = 0 THEN TRUE
  ELSE IF a[1] # b[1] THEN Ord(a[1]) < Ord(b[1])
  ELSE StrLess(Tail(a), Tail(b))

\* sub in s
Contains(sub, s) ==
  \E k \in 0..(Len(s) - Len(sub)) : SubSeq(s, k + 1, k + Len(sub)) = sub

\* s.strip(chars): drop leading and trailing characters of the set
RECURSIVE LStrip(_, _)
LStrip(s, chars) ==
  IF Len(s) > 0 /\ s[1] \in chars THEN LStrip(Tail(s), chars) ELSE s
RECURSIVE RStrip(_, _)
RStrip(s, chars) ==
  IF Len(s) > 0 /\ s[Len(s)] \in chars
  THEN RStrip(SubSeq(s, 1, Len(s) - 1), chars) ELSE s
Strip(s, chars) == RStrip(LStrip(s, chars), chars)

\* the character classes of _parse_api_keys
Space == {" "}
Brackets == {"[", "]", "(", ")", "{", "}"}
SQuote == {"'"}
DQuote == {"\""}
Seps == {",", " "}

\* the k-th smallest element of a set of numbers, from 1
Nth(S, k) == CHOOSE x \in S : Cardinality({y \in S : y < x}) = k - 1

\* the pieces of s around its separator runs, the k-th run being
\* Nth(firsts, k)..Nth(lasts, k)
PiecesBetween(s, firsts, lasts) ==
  [k \in 1..(Cardinality(firsts) + 1) |->
     SubSeq(s,
            IF k = 1 THEN 1 ELSE Nth(lasts, k - 1) + 1,
            IF k = Cardinality(firsts) + 1 THEN Len(s) ELSE Nth(firsts, k) - 1)]

\* In the definitions below, `CHOOSE r \in {e(x) : x \in {v}} : TRUE` is
\* e(v) with v computed once and bound as a value.

\* re.split(sep+, s): the pieces between maximal runs of separators; a
\* leading or trailing run leaves an empty first or last piece
SplitRuns(s, seps) ==
  CHOOSE r \in
    { PiecesBetween(s, firsts, lasts) :
        firsts \in {{k \in 1..Len(s) :
                       s[k] \in seps /\ (k = 1 \/ s[k - 1] \notin seps)}},
        lasts \in {{k \in 1..Len(s) :
                      s[k] \in seps /\ (k = Len(s) \/ s[k + 1] \notin seps)}} } : TRUE

\* str.split(sep) for a one-character separator: every separator splits
SplitOn(s, sep) ==
  CHOOSE r \in
    { PiecesBetween(s, cuts, cuts) : cuts \in {{k \in 1..Len(s) : s[k] = sep}} } : TRUE

RECURSIVE PadLeft(_, _)
PadLeft(s, n) == IF Len(s) >= n THEN s ELSE PadLeft(<<"0">> \o s, n)

\* variant of ZFill: the zeros are put after the string
ZFill_PadsRight(s, n) == IF Len(s) >= n THEN s ELSE s \o [k \in 1..(n - Len(s)) |-> "0"]

\* s.zfill(n): left-pad with "0" to width n, a leading sign staying in front
ZFill(s, n) ==
  IF Len(s) > 0 /\ Len(s) < n /\ s[1] \in {"+", "-"}
  THEN <<s[1]>> \o PadLeft(Tail(s), n - 1)
  ELSE PadLeft(s, n)

\* re.fullmatch(r"[0-9a-fA-F]{32}", k)
IsKey(k) == Len(k) = KEYLEN /\ \A j \in 1..Len(k) : IsHexChar(k[j])

RECURSIVE KeepKeys(_)
\* the loop of _parse_api_keys over the split parts
KeepKeys(ps) ==
  IF Len(ps) = 0 THEN <<>>
  ELSE LET k == Strip(Strip(Strip(ps[1], Space), SQuote), DQuote)
       IN  (IF IsKey(k) THEN <<Lower(k)>> ELSE <<>>) \o KeepKeys(Tail(ps))

\* (cleaned and parts are bound as values, each computed once)
_parse_api_keys(env) ==
  IF Len(env) = 0 THEN <<>>
  ELSE CHOOSE out \in
         { KeepKeys(ps) :
             ps \in { SplitRuns(cleaned, Seps) :
                        cleaned \in {Strip(Strip(env, Space), Brackets)} } } : TRUE

\* ------------------------------------------------------------------------
\* Helpers of the fetcher
\* ------------------------------------------------------------------------
\* f"https://www.scopus.com/record/display.uri?eid={eid}&origin=recordpage",
\* kept as its three pieces
scopus_link(eid) ==
  <<"https://www.scopus.com/record/display.uri?eid=", eid, "&origin=recordpage">>

\* f"https://doi.org/{doi}", kept as its two pieces
doi_link(doi) == <<"https://doi.org/", doi>>

\* parts(date): date is a str here (normalize passes `coverDate or ""`)
parts(date) ==
  IF Len(date) = 0 THEN [y |-> None, m |-> None, d |-> None]
  ELSE CHOOSE r \in
         { [y |-> IF Len(sp) > 0 THEN Some(sp[1]) ELSE None,
            m |-> IF Len(sp) > 1 /\ sp[2] # <<>>
                  THEN Some(ZFill(sp[2], 2)) ELSE None,
            d |-> IF Len(sp) > 2 /\ sp[3] # <<>>
                  THEN Some(ZFill(sp[3], 2)) ELSE None] :
             sp \in {SplitOn(date, "-")} } : TRUE

\* int(x or 0) for an optional digit string (the API sends counts as str)
IntOrZero(o) == IF Truthy(o) THEN ToInt(Val(o)) ELSE 0

\* normalize(it, authors) raises: int() of a citation count that is present
\* and is not a number is a ValueError (the counts are taken as str, and a
\* str of digits is what int() is taken to accept)
normalize_Raises(it) == Truthy(it.citedby) /\ ~IsDigitStr(Val(it.citedby))

\* normalize(it, authors), when it returns
normalize(it, authors) ==
  CHOOSE r \in {
      [title |-> OrEmpty(it.title),
       eid |-> OrEmpty(it.eid),
       scopus_url |-> scopus_link(OrEmpty(it.eid)),
       doi |-> it.doi,
       doi_url |-> IF Truthy(it.doi) THEN Some(doi_link(Val(it.doi))) ELSE None,
       cited_by |-> IntOrZero(it.citedby),
       cover_date |-> OrEmpty(it.coverDate),
       year |-> p.y,
       month |-> p.m,
       day |-> p.d,
       venue |-> it.venue,
       type |-> it.subtypeDescription,
       subtype |-> it.subtype,
       volume |-> it.volume,
       issue |-> it.issue,
       pages |-> it.pages,
       first_author |-> it.creator,
       authors |-> authors] :
    p \in {parts(OrEmpty(it.coverDate))} } : TRUE

\* keep_all of main
KeepAll(types) == Strip(types, Space) = <<"*">>

NonEmpty(t) == t # <<>>

\* include of main: [t.strip().lower() for t in types.split(",") if t.strip()]
Include(types) ==
  CHOOSE r \in
    { [k \in 1..Len(kept) |-> Lower(kept[k])] :
        kept \in { SelectSeq([k \in 1..Len(ps) |-> Strip(ps[k], Space)], NonEmpty) :
                     ps \in {SplitOn(types, ",")} } } : TRUE

\* variant of Keep: conference papers get no special treatment
Keep_NoSentinel(it, keep_all, include) ==
  \/ keep_all
  \/ \E t \in {include[k] : k \in 1..Len(include)} :
       \E desc \in {Lower(IF Truthy(it.subtypeDescription)
                           THEN Val(it.subtypeDescription)
                           ELSE OrEmpty(it.subtype))} : Contains(t, desc)

\* desc and keep of the loop over iter_search
Desc(it) ==
  Lower(IF Truthy(it.subtypeDescription) THEN Val(it.subtypeDescription)
        ELSE OrEmpty(it.subtype))
Keep(it, keep_all, include) ==
  \/ keep_all
  \/ \E t \in {include[k] : k \in 1..Len(include)} :
       \E desc \in {Desc(it)} : Contains(t, desc)
  \/ Lower(OrEmpty(it.subtype)) = <<"c", "p">>

\* the sort key of main: (year as int or -1, month or "", title or "")
YearKey(r) ==
  IF Truthy(r.year) /\ IsDigitStr(Val(r.year)) THEN ToInt(Val(r.year)) ELSE 0 - 1
\* variant of KeyLess: the key is the year alone
KeyLess_YearOnly(a, b) == YearKey(a) < YearKey(b)

KeyLess(a, b) ==
  \/ YearKey(a) < YearKey(b)
  \/ /\ YearKey(a) = YearKey(b)
     /\ \/ StrLess(OrEmpty(a.month), OrEmpty(b.month))
        \/ /\ OrEmpty(a.month) = OrEmpty(b.month)
           /\ StrLess(a.title, b.title)

\* insert r after every element whose key is not smaller: descending and
\* stable, as list.sort(reverse=True) is
InsertDesc(sorted, r) ==
  CHOOSE out \in
    { SubSeq(sorted, 1, p - 1) \o <<r>> \o SubSeq(sorted, p, Len(sorted)) :
        p \in { IF \E j \in 1..Len(sorted) : KeyLess(sorted[j], r)
                THEN CHOOSE j \in 1..Len(sorted) :
                       /\ KeyLess(sorted[j], r)
                       /\ \A h \in 1..(j - 1) : ~KeyLess(sorted[h], r)
                ELSE Len(sorted) + 1 } } : TRUE

RECURSIVE SortFrom(_, _)
SortFrom(sorted, rest) ==
  IF Len(rest) = 0 THEN sorted
  ELSE CHOOSE out \in
         { SortFrom(s2, r2) : s2 \in {InsertDesc(sorted, rest[1])},
                              r2 \in {Tail(rest)} } : TRUE

\* rows.sort(key=..., reverse=True)
SortRows(rs) == SortFrom(<<>>, rs)

\* nm.replace(' ', '_')
Underscored(nm) == [k \in 1..Len(nm) |-> IF nm[k] = " " THEN "_" ELSE nm[k]]

\* os.path.join(args.out, f"{nm.replace(' ', '_')}_articles.csv")
CsvPath(out, nm) == <<out, "/", Underscored(nm), "_articles.csv">>

\* ------------------------------------------------------------------------
\* The environment: configuration inputs and the upstream API
\* ------------------------------------------------------------------------
Rep(c, n) == [k \in 1..n |-> c]
\* two well-formed credentials (one in upper case) and a malformed token
KeyA == Rep("A", KEYLEN - 1) \o <<"1">>
KeyB == Rep("b", KEYLEN - 1) \o <<"2">>
BadKey == Rep("b", KEYLEN - 2) \o <<"g", "2">>

\* values of SCOPUS_API_KEYS
EnvVals ==
  { <<>>,
    <<"[", "'">> \o BadKey \o <<"'", "]">>,
    <<" ", "[", "\"">> \o KeyA \o <<"\"", "]">>,
    KeyA \o <<",", " ">> \o BadKey \o <<",">> \o KeyB,
    <<"(">> \o KeyA \o <<")", ",", "(">> \o KeyB \o <<")">> }

\* --types
TypesDefault ==
  <<"A", "r", "t", "i", "c", "l", "e", ",", "R", "e", "v", "i", "e", "w", ",",
    "E", "d", "i", "t", "o", "r", "i", "a", "l", ",",
    "C", "o", "n", "f", "e", "r", "e", "n", "c", "e", " ", "P", "a", "p", "e", "r">>
TypesAll == <<"*">>
\* other values of --types: one entry; the wildcard between blanks; the
\* wildcard as one entry of two; entries in upper case, one of them a
\* category code; an empty entry among others; no entry
TypesVariants ==
  { <<"A", "r", "t", "i", "c", "l", "e">>,
    <<" ", "*", " ">>,
    <<"*", ",", "N", "o", "t", "e">>,
    <<"L", "E", ",", " ", "N", "O", "T", "E">>,
    <<"R", "e", "v", "i", "e", "w", ",", ",", "t", "i", "c", ",", "n", "o", "t">>,
    <<>> }

\* rows of authors.csv: author_id and name columns as read
Row71 == [author_id |-> <<"7", "1">>, name |-> <<" ", "A", " ", "B">>]
Row72 == [author_id |-> <<"7", "2">>, name |-> <<"Z">>]
Row73 == [author_id |-> <<"7", "3">>, name |-> <<"Y">>]
RowNoId == [author_id |-> <<" ">>, name |-> <<"Q">>]
Row81 == [author_id |-> <<"8", "1">>, name |-> <<"L">>]
Row82 == [author_id |-> <<"8", "2">>, name |-> <<"M">>]
Row83 == [author_id |-> <<"8", "3">>, name |-> <<"N">>]

\* the sequences of at most n elements of S, none of them twice
SeqsUpTo(S, n) ==
  { r \in UNION {[1..k -> S] : k \in 0..n} :
      \A a, b \in DOMAIN r : a # b => r[a] # r[b] }

\* the records the search endpoint holds, by rank in the result set; the
\* result set of a query is a prefix of this cycle
Catalogue ==
  << [title |-> Some(<<"B">>), eid |-> Some(<<"e", "1">>),
      doi |-> Some(<<"d", "1">>), citedby |-> Some(<<"5">>),
      coverDate |-> Some(<<"2", "0", "2", "0", "-", "3", "-", "7">>),
      subtype |-> Some(<<"a", "r">>),
      subtypeDescription |-> Some(<<"A", "r", "t", "i", "c", "l", "e">>),
      venue |-> Some("J"), volume |-> Some("1"), issue |-> None,
      pages |-> Some("1-9"), creator |-> Some("B A")],
     [title |-> Some(<<"N">>), eid |-> Some(<<"e", "2">>),
      doi |-> None, citedby |-> Some(<<"3">>),
      coverDate |-> Some(<<"2", "0", "1", "9", "-", "0", "1">>),
      subtype |-> Some(<<"n", "o">>),
      subtypeDescription |-> Some(<<"N", "o", "t", "e">>),
      venue |-> Some("J"), volume |-> None, issue |-> None,
      pages |-> None, creator |-> Some("C D")],
     [title |-> None, eid |-> None,
      doi |-> Some(<<>>), citedby |-> None,
      coverDate |-> None,
      subtype |-> Some(<<"c", "p">>),
      subtypeDescription |-> None,
      venue |-> None, volume |-> None, issue |-> None,
      pages |-> None, creator |-> None],
     [title |-> Some(<<"A">>), eid |-> Some(<<"e", "4">>),
      doi |-> Some(<<"d", "4">>), citedby |-> Some(<<"0">>),
      coverDate |-> Some(<<"2", "0", "2", "0", "-", "1", "1">>),
      subtype |-> Some(<<"r", "e">>),
      subtypeDescription |-> Some(<<"R", "e", "v", "i", "e", "w">>),
      venue |-> Some("K"), volume |-> Some("2"), issue |-> Some("3"),
      pages |-> None, creator |-> Some("E F")],
     [title |-> Some(<<"L">>), eid |-> Some(<<"e", "5">>),
      doi |-> None, citedby |-> Some(<<"n", "/", "a">>),
      coverDate |-> Some(<<"2", "0", "x", "x">>),
      subtype |-> Some(<<"l", "e">>),
      subtypeDescription |-> None,
      venue |-> None, volume |-> None, issue |-> None,
      pages |-> None, creator |-> Some("G H")] >>

Raw(rank) == Catalogue[((rank - 1) % Len(Catalogue)) + 1]

\* size of the result set of AU-ID(aid)
ResultCount(aid) ==
  CASE aid = <<"7", "1">> -> 3
    [] aid = <<"7", "2">> -> 0
    [] aid = <<"7", "3">> -> 5
    [] aid = <<"8", "1">> -> 47
    [] aid = <<"8", "2">> -> 60
    [] aid = <<"8", "3">> -> 25
    [] OTHER -> 0

Min(a, b) == IF a < b THEN a ELSE b

\* the ranks a search response holds for offset `start` and page size `count`
PageOf(aid, start, count) ==
  [k \in 1..(IF ResultCount(aid) > start
             THEN Min(count, ResultCount(aid) - start) ELSE 0) |-> start + k]

\* what opensearch:totalResults may hold in a response: missing, the size
\* of the result set, a larger number, or a non-numeric string
TotalResultsChoices(aid) ==
  { None, Some(ToStr(ResultCount(aid))), Some(ToStr(ResultCount(aid) + PAGE)),
    Some(<<"n", "/", "a">>) }

\* author entries of an abstract (record-detail) response
DetailResponses ==
  { << [indexed |-> Some("B A."), preferred |-> None, authname |-> None],
       [indexed |-> None, preferred |-> None, authname |-> Some("G H.")],
       [indexed |-> None, preferred |-> None, authname |-> None] >> }

\* author-retrieval responses: coredata and h-index of the first element
ProfileResponses ==
  { [given |-> Some("A"), surname |-> Some("B"), h_index |-> Some(<<"7">>),
     citation_count |-> Some(<<"1", "2">>), document_count |-> Some(<<"3">>)] }

\* iso_now(): the clock is not modelled
NOW == "now"

RECURSIVE AuthorNames(_)
\* the names loop of fetch_authors
AuthorNames(as) ==
  IF Len(as) = 0 THEN <<>>
  ELSE LET a == as[1]
           nm == IF ~IsNone(a.indexed) THEN a.indexed
                 ELSE IF ~IsNone(a.preferred) THEN a.preferred
                 ELSE a.authname
       IN  (IF ~IsNone(nm) THEN <<Val(nm)>> ELSE <<>>) \o AuthorNames(Tail(as))

\* " ".join(filter(None, [given, surname])) or None
JoinName(given, surname) ==
  IF ~IsNone(given) /\ ~IsNone(surname) THEN Some(<<Val(given), " ", Val(surname)>>)
  ELSE IF ~IsNone(given) THEN Some(<<Val(given)>>)
  ELSE IF ~IsNone(surname) THEN Some(<<Val(surname)>>)
  ELSE None

\* the metrics dict fetch_author_profile builds from a response
fetch_author_profile(author_id, core) ==
  [author_id |-> author_id,
   author_name |-> JoinName(core.given, core.surname),
   h_index |-> IntOrZero(core.h_index),
   total_citations |-> IntOrZero(core.citation_count),
   total_documents |-> IntOrZero(core.document_count),
   source |-> "scopus",
   last_updated |-> NOW]

\* total = int(tr) if tr and str(tr).isdigit() else None
ParseTotal(tr) ==
  IF Truthy(tr) /\ IsDigitStr(Val(tr)) THEN Some(ToInt(Val(tr))) ELSE None

RECURSIVE ReadRoster(_)
\* the csv.DictReader loop of main: rows with both fields, stripped
ReadRoster(file) ==
  IF Len(file) = 0 THEN <<>>
  ELSE LET aid == Strip(file[1].author_id, Space)
           nm == Strip(file[1].name, Space)
       IN  (IF aid # <<>> /\ nm # <<>> THEN << <<aid, nm>> >> ELSE <<>>)
           \o ReadRoster(Tail(file))

\* ------------------------------------------------------------------------
\* State
\* ------------------------------------------------------------------------
VARIABLES
  envval,        \* os.getenv("SCOPUS_API_KEYS", "")
  rosterFile,    \* the rows of --authors-file
  args,          \* the parsed command line
  pc,            \* where the process is
  API_KEYS,      \* the module-level credential list
  dirs,          \* directories made by ensure()
  files,         \* paths opened for writing so far
  authors,       \* main: the (author_id, name) pairs
  idx,           \* main: position in authors, from 1
  rows,          \* main: the current author's rows
  combined,      \* main: the combined corpus
  first_metrics, \* main: None or the retained metrics dict
  i,             \* iter_search: attempt index
  start,         \* iter_search: offset
  total,         \* iter_search: None or the total-result count
  entries,       \* iter_search: ranks of the entries of the page being yielded
  pos,           \* iter_search: next entry of the page to yield, from 1
  tries,         \* fetch_authors: attempts made for the current record
  issued,        \* observation: kinds of request sent so far
  lastReq,       \* observation: the last request sent
  fails,         \* observation: failed search requests of the current stream
  pagesLog,      \* observation: successful page fetches of the current stream
  yieldLog,      \* observation: ranks yielded by the current stream
  metricsLog,    \* observation: per author, whether the profile call failed
                 \* and the metrics it resolved, if any
  date,          \* parts: its argument, when parts is run on its own
  ymd            \* parts: None, or (y, m, d) once it returned

vars ==
  << envval, rosterFile, args, pc, API_KEYS, dirs, files, authors, idx, rows,
     combined, first_metrics, i, start, total, entries, pos, tries, issued,
     lastReq, fails, pagesLog, yieldLog, metricsLog, date, ymd >>

inputVars == << envval, rosterFile, args, date, ymd >>
mainVars == << authors, idx, rows, combined, first_metrics >>
genVars == << i, start, total, entries, pos >>
obsVars == << issued, lastReq, fails, pagesLog, yieldLog, metricsLog >>

\* variant of _key: the index is clamped to the pool, not wrapped
_key_Clamped(n) == API_KEYS[Min(n, Len(API_KEYS) - 1) + 1]

\* _key(i)
_key(n) == API_KEYS[(n % Len(API_KEYS)) + 1]

\* the current author of main's loop
aid == authors[idx][1]
nm == authors[idx][2]

\* the attempt index kept within 0..MaxAttempt: folding by one rotation of
\* the pool leaves n % len(API_KEYS), its only use, unchanged
Fold(n) == IF n > MaxAttempt THEN n - Len(API_KEYS) ELSE n

NoReq == [kind |-> "none", key |-> <<>>, start |-> 0, nfail |-> 0]
Req(kind, key, offset, nfail) ==
  [kind |-> kind, key |-> key, start |-> offset, nfail |-> nfail]

Args(details, types) ==
  [details |-> details, types |-> types, out |-> "data/scopus",
   combined |-> <<"data/scopus/scopus.json">>,
   metrics |-> <<"data/scopus/metrics.json">>]

\* runs over short rosters (each author once, or rows without an identifier)
\* and small result sets, every option varied
InitRoster ==
  /\ envval \in EnvVals
  /\ rosterFile \in SeqsUpTo({Row71, Row72, Row73}, MaxRoster)
                      \cup {<<RowNoId>>, <<RowNoId, Row71>>, <<RowNoId, RowNoId>>}
  /\ args \in {Args(d, t) : d \in BOOLEAN, t \in {TypesDefault, TypesAll}}

\* runs over one author with a result set of several pages
InitPaged ==
  /\ envval = KeyA \o <<",", " ">> \o BadKey \o <<",">> \o KeyB
  /\ rosterFile \in {<<Row81>>, <<Row82>>, <<Row83>>}
  /\ args = Args(FALSE, TypesDefault)

\* runs over one author whose result set is the whole catalogue, the
\* allow-list varied
InitFilter ==
  /\ envval = <<" ", "[", "\"">> \o KeyA \o <<"\"", "]">>
  /\ rosterFile = <<Row73>>
  /\ args \in {Args(FALSE, t) : t \in TypesVariants}

\* nothing has run yet
Idle ==
  /\ API_KEYS = <<>>
  /\ dirs = {}
  /\ files = {}
  /\ authors = <<>>
  /\ idx = 0
  /\ rows = <<>>
  /\ combined = <<>>
  /\ first_metrics = None
  /\ i = 0
  /\ start = 0
  /\ total = None
  /\ entries = <<>>
  /\ pos = 0
  /\ tries = 0
  /\ issued = {}
  /\ lastReq = NoReq
  /\ fails = 0
  /\ pagesLog = <<>>
  /\ yieldLog = <<>>
  /\ metricsLog = <<>>
  /\ ymd = None

Init ==
  /\ InitRoster \/ InitPaged \/ InitFilter
  /\ date = <<>>
  /\ pc = "import"
  /\ Idle

\* cover dates: every string of digits and dashes up to MaxDateLen, and the
\* dates of the catalogue
DateChars == {"1", "9", "-"}
Dates ==
  UNION {[1..n -> DateChars] : n \in 0..MaxDateLen}
    \cup {Val(Catalogue[k].coverDate) :
            k \in {j \in 1..Len(Catalogue) : Catalogue[j].coverDate # None}}

\* parts() run on its own on a cover date
InitParts ==
  /\ date \in Dates
  /\ envval = <<>>
  /\ rosterFile = <<>>
  /\ args = Args(FALSE, TypesAll)
  /\ pc = "parts"
  /\ Idle

\* ------------------------------------------------------------------------
\* Actions
\* ------------------------------------------------------------------------
\* variant of LoadModule: an empty pool is not checked
LoadModule_NoCheck ==
  /\ pc = "import"
  /\ API_KEYS' = _parse_api_keys(envval)
  /\ pc' = "main"
  /\ UNCHANGED << inputVars, dirs, files, mainVars, genVars, tries, obsVars >>

\* module import: API_KEYS = _parse_api_keys(...); SystemExit when empty
LoadModule ==
  /\ pc = "import"
  /\ API_KEYS' = _parse_api_keys(envval)
  /\ pc' = IF API_KEYS' = <<>> THEN "SystemExit_keys" ELSE "main"
  /\ UNCHANGED << inputVars, dirs, files, mainVars, genVars, tries, obsVars >>

\* one iteration of the author loop begins: rows = [], and iter_search(query)
\* makes a generator with i = start = 0, total = None
BeginAuthor(k) ==
  /\ idx' = k
  /\ rows' = <<>>
  /\ i' = 0
  /\ start' = 0
  /\ total' = None
  /\ entries' = <<>>
  /\ pos' = 0
  /\ fails' = 0
  /\ pagesLog' = <<>>
  /\ yieldLog' = <<>>
  /\ pc' = "search"

\* main up to the author loop: ensure(out), read the roster, SystemExit when
\* no row has both fields
MainStart ==
  /\ pc = "main"
  /\ dirs' = dirs \cup {args.out}
  /\ authors' = ReadRoster(rosterFile)
  /\ IF authors' = <<>>
     THEN /\ pc' = "SystemExit_roster"
          /\ UNCHANGED << idx, rows, genVars, fails, pagesLog, yieldLog >>
     ELSE BeginAuthor(1)
  /\ combined' = <<>>
  /\ first_metrics' = None
  /\ UNCHANGED << inputVars, API_KEYS, files, tries, issued, lastReq,
                  metricsLog >>

\* variant of SearchFail: the failed page is skipped
SearchFail_SkipsPage ==
  /\ pc = "search"
  /\ i' = Fold(i + 1)
  /\ fails' = Fold(fails + 1)
  /\ start' = start + PAGE
  /\ issued' = issued \cup {"search"}
  /\ lastReq' = Req("search", _key(i), start, fails)
  /\ UNCHANGED << inputVars, pc, API_KEYS, dirs, files, mainVars, total,
                  entries, pos, tries, pagesLog, yieldLog, metricsLog >>

\* variant of SearchFail: gives up once every attempt index was used
SearchFail_Capped ==
  /\ pc = "search"
  /\ i' = Fold(i + 1)
  /\ fails' = Fold(fails + 1)
  /\ pc' = IF i + 1 > MaxAttempt THEN "SystemExit_search" ELSE "search"
  /\ issued' = issued \cup {"search"}
  /\ lastReq' = Req("search", _key(i), start, fails)
  /\ UNCHANGED << inputVars, API_KEYS, dirs, files, mainVars, start, total,
                  entries, pos, tries, pagesLog, yieldLog, metricsLog >>

\* iter_search: req() raised; rotate the key and retry the same offset
SearchFail ==
  /\ pc = "search"
  /\ i' = Fold(i + 1)
  /\ fails' = Fold(fails + 1)
  /\ issued' = issued \cup {"search"}
  /\ lastReq' = Req("search", _key(i), start, fails)
  /\ UNCHANGED << inputVars, pc, API_KEYS, dirs, files, mainVars, start, total,
                  entries, pos, tries, pagesLog, yieldLog, metricsLog >>

\* variant of SearchOk: every page that reports a count sets total
SearchOk_Overwrites ==
  /\ pc = "search"
  /\ entries' = PageOf(aid, start, PAGE)
  /\ \E tr \in TotalResultsChoices(aid) :
       /\ total' = IF IsNone(ParseTotal(tr)) THEN total ELSE ParseTotal(tr)
       /\ pagesLog' = Append(pagesLog, [start |-> start, n |-> Len(entries'),
                                        total |-> total',
                                        reported |-> ParseTotal(tr),
                                        entries |-> entries'])
  /\ pos' = 1
  /\ pc' = "yield"
  /\ issued' = issued \cup {"search"}
  /\ lastReq' = Req("search", _key(i), start, fails)
  /\ UNCHANGED << inputVars, API_KEYS, dirs, files, mainVars, i, start, tries,
                  fails, yieldLog, metricsLog >>

\* iter_search: req() returned a page; total is captured while it is None
SearchOk ==
  /\ pc = "search"
  /\ entries' = PageOf(aid, start, PAGE)
  /\ \E tr \in TotalResultsChoices(aid) :
       /\ total' = IF IsNone(total) THEN ParseTotal(tr) ELSE total
       /\ pagesLog' = Append(pagesLog, [start |-> start, n |-> Len(entries'),
                                        total |-> total',
                                        reported |-> ParseTotal(tr),
                                        entries |-> entries'])
  /\ pos' = 1
  /\ pc' = "yield"
  /\ issued' = issued \cup {"search"}
  /\ lastReq' = Req("search", _key(i), start, fails)
  /\ UNCHANGED << inputVars, API_KEYS, dirs, files, mainVars, i, start, tries,
                  fails, yieldLog, metricsLog >>

\* the row main appends for a kept entry
RowOf(it, auth_list) ==
  normalize(it, auth_list) @@ [author_id |-> aid, author_name |-> nm]

\* variant of Enriches: the option is not looked at
Enriches_IgnoresOption(it) == Truthy(it.eid)

\* main calls fetch_authors for a kept entry: args.details and it.get("eid")
Enriches(it) == args.details /\ Truthy(it.eid)

\* variant of LoopBody: a record whose normalization fails is skipped
LoopBody_SkipsBadRecord ==
  /\ pc = "yield"
  /\ pos <= Len(entries)
  /\ yieldLog' = Append(yieldLog, entries[pos])
  /\ \E it \in {Raw(entries[pos])} :
         IF ~Keep(it, KeepAll(args.types), Include(args.types))
         THEN /\ pos' = pos + 1
              /\ UNCHANGED << pc, rows, tries >>
         ELSE IF Enriches(it)
         THEN /\ pc' = "fetch_authors"
              /\ tries' = 0
              /\ UNCHANGED << pos, rows >>
         ELSE IF normalize_Raises(it)
         THEN /\ pos' = pos + 1
              /\ UNCHANGED << pc, rows, tries >>
         ELSE /\ rows' = Append(rows, RowOf(it, <<>>))
              /\ pos' = pos + 1
              /\ UNCHANGED << pc, tries >>
  /\ UNCHANGED << inputVars, API_KEYS, dirs, files, authors, idx, combined,
                  first_metrics, i, start, total, entries, issued, lastReq,
                  fails, pagesLog, metricsLog >>

\* the loop body of main for the next yielded entry: filter, then either
\* normalize and append (an exception of normalize is not caught), or enter
\* fetch_authors
LoopBody ==
  /\ pc = "yield"
  /\ pos <= Len(entries)
  /\ yieldLog' = Append(yieldLog, entries[pos])
  /\ \E it \in {Raw(entries[pos])} :
         IF ~Keep(it, KeepAll(args.types), Include(args.types))
         THEN /\ pos' = pos + 1
              /\ UNCHANGED << pc, rows, tries >>
         ELSE IF Enriches(it)
         THEN /\ pc' = "fetch_authors"
              /\ tries' = 0
              /\ UNCHANGED << pos, rows >>
         ELSE IF normalize_Raises(it)
         THEN /\ pc' = "Traceback"
              /\ UNCHANGED << pos, rows, tries >>
         ELSE /\ rows' = Append(rows, RowOf(it, <<>>))
              /\ pos' = pos + 1
              /\ UNCHANGED << pc, tries >>
  /\ UNCHANGED << inputVars, API_KEYS, dirs, files, authors, idx, combined,
                  first_metrics, i, start, total, entries, issued, lastReq,
                  fails, pagesLog, metricsLog >>

\* variant of DetailFail: one attempt more is made
DetailFail_OneMore ==
  /\ pc = "fetch_authors"
  /\ issued' = issued \cup {"detail"}
  /\ lastReq' = Req("detail", _key(0), 0, 0)
  /\ IF tries + 1 < TRIES + 1
     THEN /\ tries' = tries + 1
          /\ UNCHANGED << pc, rows, pos >>
     ELSE IF normalize_Raises(Raw(entries[pos]))
     THEN /\ pc' = "Traceback"
          /\ UNCHANGED << tries, rows, pos >>
     ELSE /\ tries' = 0
          /\ rows' = Append(rows, RowOf(Raw(entries[pos]), <<>>))
          /\ pos' = pos + 1
          /\ pc' = "yield"
  /\ UNCHANGED << inputVars, API_KEYS, dirs, files, authors, idx, combined,
                  first_metrics, i, start, total, entries, fails, pagesLog,
                  yieldLog, metricsLog >>

\* fetch_authors: one attempt raised; after the last attempt return []
DetailFail ==
  /\ pc = "fetch_authors"
  /\ issued' = issued \cup {"detail"}
  /\ lastReq' = Req("detail", _key(0), 0, 0)
  /\ IF tries + 1 < TRIES
     THEN /\ tries' = tries + 1
          /\ UNCHANGED << pc, rows, pos >>
     ELSE IF normalize_Raises(Raw(entries[pos]))
     THEN /\ pc' = "Traceback"
          /\ UNCHANGED << tries, rows, pos >>
     ELSE /\ tries' = 0
          /\ rows' = Append(rows, RowOf(Raw(entries[pos]), <<>>))
          /\ pos' = pos + 1
          /\ pc' = "yield"
  /\ UNCHANGED << inputVars, API_KEYS, dirs, files, authors, idx, combined,
                  first_metrics, i, start, total, entries, fails, pagesLog,
                  yieldLog, metricsLog >>

\* fetch_authors: one attempt succeeded; return the names
DetailOk ==
  /\ pc = "fetch_authors"
  /\ IF normalize_Raises(Raw(entries[pos]))
     THEN /\ pc' = "Traceback"
          /\ UNCHANGED << tries, rows, pos >>
     ELSE /\ \E resp \in DetailResponses :
               rows' = Append(rows, RowOf(Raw(entries[pos]), AuthorNames(resp)))
          /\ tries' = 0
          /\ pos' = pos + 1
          /\ pc' = "yield"
  /\ issued' = issued \cup {"detail"}
  /\ lastReq' = Req("detail", _key(0), 0, 0)
  /\ UNCHANGED << inputVars, API_KEYS, dirs, files, authors, idx, combined,
                  first_metrics, i, start, total, entries, fails, pagesLog,
                  yieldLog, metricsLog >>

\* variant of Stops: start > total in place of start >= total
Stops_StrictlyGreater(tot, offset, n) ==
  \/ IsNone(tot) /\ n < PAGE
  \/ ~IsNone(tot) /\ (offset > Val(tot) \/ n = 0)

\* variant of Stops: without a total, only an empty page ends the stream
Stops_OnlyOnEmpty(tot, offset, n) ==
  \/ IsNone(tot) /\ n = 0
  \/ ~IsNone(tot) /\ (offset >= Val(tot) \/ n = 0)

\* the tests that end iter_search after a page
Stops(tot, offset, n) ==
  \/ IsNone(tot) /\ n < PAGE
  \/ ~IsNone(tot) /\ (offset >= Val(tot) \/ n = 0)

\* variant of PageEnd: the offset is not advanced
PageEnd_NoAdvance ==
  /\ pc = "yield"
  /\ pos > Len(entries)
  /\ start' = start
  /\ pc' = IF Stops(total, start', Len(entries)) THEN "sort" ELSE "search"
  /\ entries' = <<>>
  /\ pos' = 0
  /\ UNCHANGED << inputVars, API_KEYS, dirs, files, mainVars, i, total, tries,
                  obsVars >>

\* iter_search after the last entry of a page: advance, then stop or go on
PageEnd ==
  /\ pc = "yield"
  /\ pos > Len(entries)
  /\ start' = start + PAGE
  /\ pc' = IF Stops(total, start', Len(entries)) THEN "sort" ELSE "search"
  /\ entries' = <<>>
  /\ pos' = 0
  /\ UNCHANGED << inputVars, API_KEYS, dirs, files, mainVars, i, total, tries,
                  obsVars >>

\* variant of SortAndExport: the author's rows are put in front of combined
SortAndExport_Prepends ==
  /\ pc = "sort"
  /\ \E sorted \in {SortRows(rows)} :
       /\ rows' = sorted
       /\ combined' = sorted \o combined
  /\ files' = files \cup {CsvPath(args.out, nm)}
  /\ pc' = "metrics"
  /\ i' = 0
  /\ start' = 0
  /\ total' = None
  /\ UNCHANGED << inputVars, API_KEYS, dirs, authors, idx, first_metrics,
                  entries, pos, tries, obsVars >>

\* variant of SortAndExport: the per-author CSV is not written
SortAndExport_NoExport ==
  /\ pc = "sort"
  /\ \E sorted \in {SortRows(rows)} :
       /\ rows' = sorted
       /\ combined' = combined \o sorted
  /\ pc' = "metrics"
  /\ i' = 0
  /\ start' = 0
  /\ total' = None
  /\ UNCHANGED << inputVars, API_KEYS, dirs, files, authors, idx, first_metrics,
                  entries, pos, tries, obsVars >>

\* main after the stream: sort, write the per-author CSV, extend combined
SortAndExport ==
  /\ pc = "sort"
  /\ \E sorted \in {SortRows(rows)} :
       /\ rows' = sorted
       /\ combined' = combined \o sorted
  /\ files' = files \cup {CsvPath(args.out, nm)}
  /\ pc' = "metrics"
  /\ i' = 0
  /\ start' = 0
  /\ total' = None
  /\ UNCHANGED << inputVars, API_KEYS, dirs, authors, idx, first_metrics,
                  entries, pos, tries, obsVars >>

\* the end of one iteration of the author loop
NextAuthor ==
  IF idx < Len(authors)
  THEN BeginAuthor(idx + 1)
  ELSE /\ pc' = "write"
       /\ UNCHANGED << idx, rows, genVars, fails, pagesLog, yieldLog >>

\* variant of MetricsOk: the latest metrics are kept
MetricsOk_KeepsLast ==
  /\ pc = "metrics"
  /\ \E core \in ProfileResponses :
       LET m == fetch_author_profile(aid, core)
       IN  /\ first_metrics' = Some(m)
           /\ metricsLog' = Append(metricsLog, [failed |-> FALSE,
                                                 resolved |-> Some(m)])
  /\ issued' = issued \cup {"profile"}
  /\ lastReq' = Req("profile", _key(0), 0, 0)
  /\ NextAuthor
  /\ UNCHANGED << inputVars, API_KEYS, dirs, files, authors, combined, tries >>

\* fetch_author_profile returned: keep the first metrics only
MetricsOk ==
  /\ pc = "metrics"
  /\ \E core \in ProfileResponses :
       LET m == fetch_author_profile(aid, core)
       IN  /\ first_metrics' = IF IsNone(first_metrics) THEN Some(m)
                               ELSE first_metrics
           /\ metricsLog' = Append(metricsLog, [failed |-> FALSE,
                                                 resolved |-> Some(m)])
  /\ issued' = issued \cup {"profile"}
  /\ lastReq' = Req("profile", _key(0), 0, 0)
  /\ NextAuthor
  /\ UNCHANGED << inputVars, API_KEYS, dirs, files, authors, combined, tries >>

\* the metrics a fallback would compute from an author's rows
RECURSIVE SumCitedBy(_)
SumCitedBy(rs) == IF Len(rs) = 0 THEN 0 ELSE rs[1].cited_by + SumCitedBy(Tail(rs))
ComputedFallback(author_id, rs) ==
  [author_id |-> author_id,
   author_name |-> None,
   h_index |-> 0,
   total_citations |-> SumCitedBy(rs),
   total_documents |-> Len(rs),
   source |-> "computed-fallback",
   last_updated |-> NOW]

\* variant of MetricsFail: a fallback computed from the rows is retained
MetricsFail_Fallback ==
  /\ pc = "metrics"
  /\ metricsLog' = Append(metricsLog, [failed |-> TRUE,
                                        resolved |-> Some(ComputedFallback(aid, rows))])
  /\ first_metrics' = IF IsNone(first_metrics)
                      THEN Some(ComputedFallback(aid, rows)) ELSE first_metrics
  /\ issued' = issued \cup {"profile"}
  /\ lastReq' = Req("profile", _key(0), 0, 0)
  /\ NextAuthor
  /\ UNCHANGED << inputVars, API_KEYS, dirs, files, authors, combined, tries >>

\* variant of MetricsFail: the exception is not caught
MetricsFail_Raises ==
  /\ pc = "metrics"
  /\ metricsLog' = Append(metricsLog, [failed |-> TRUE, resolved |-> None])
  /\ issued' = issued \cup {"profile"}
  /\ lastReq' = Req("profile", _key(0), 0, 0)
  /\ pc' = "Traceback"
  /\ UNCHANGED << inputVars, API_KEYS, dirs, files, mainVars, genVars, tries,
                  fails, pagesLog, yieldLog >>

\* fetch_author_profile raised: logged, nothing else
MetricsFail ==
  /\ pc = "metrics"
  /\ metricsLog' = Append(metricsLog, [failed |-> TRUE, resolved |-> None])
  /\ issued' = issued \cup {"profile"}
  /\ lastReq' = Req("profile", _key(0), 0, 0)
  /\ NextAuthor
  /\ UNCHANGED << inputVars, API_KEYS, dirs, files, authors, combined,
                  first_metrics, tries >>

\* variant of WriteOutputs: exits when either is missing
WriteOutputs_EitherMissing ==
  /\ pc = "write"
  /\ files' = files \cup {args.combined}
                    \cup (IF IsNone(first_metrics) THEN {} ELSE {args.metrics})
  /\ pc' = IF combined = <<>> \/ IsNone(first_metrics)
           THEN "SystemExit_empty" ELSE "exit_ok"
  /\ UNCHANGED << inputVars, API_KEYS, dirs, mainVars, genVars, tries, obsVars >>

\* main after the loop: write the outputs, SystemExit when nothing was
\* retrieved
WriteOutputs ==
  /\ pc = "write"
  /\ files' = files \cup {args.combined}
                    \cup (IF IsNone(first_metrics) THEN {} ELSE {args.metrics})
  /\ pc' = IF combined = <<>> /\ IsNone(first_metrics)
           THEN "SystemExit_empty" ELSE "exit_ok"
  /\ UNCHANGED << inputVars, API_KEYS, dirs, mainVars, genVars, tries, obsVars >>

Next ==
  \/ LoadModule
  \/ MainStart
  \/ SearchFail
  \/ SearchOk
  \/ LoopBody
  \/ DetailFail
  \/ DetailOk
  \/ PageEnd
  \/ SortAndExport
  \/ MetricsOk
  \/ MetricsFail
  \/ WriteOutputs

Spec == Init /\ [][Next]_vars

\* y, m, d = parts(date)
CallParts ==
  /\ pc = "parts"
  /\ ymd' = Some(parts(date))
  /\ pc' = "parts_done"
  /\ UNCHANGED << envval, rosterFile, args, date, API_KEYS, dirs, files,
                  mainVars, genVars, tries, obsVars >>

NextParts == CallParts

PartsSpec == InitParts /\ [][NextParts]_vars

\* every step the process can take is eventually taken: it is one thread
\* that never waits on anything but the request in flight
FairSpec == Spec /\ WF_vars(Next)

\* ------------------------------------------------------------------------
\* Properties
\* ------------------------------------------------------------------------
InStream == pc \in {"search", "yield", "fetch_authors"}
LastPage == pagesLog[Len(pagesLog)]
PageSizes == [k \in 1..Len(pagesLog) |-> pagesLog[k].n]
CeilDiv(a, b) == (a + b - 1) \div b
Max(a, b) == IF a > b THEN a ELSE b

\* C1: within a stream, start changes only in the step that ends a fetched
\* page (all its entries yielded), and then by exactly PAGE; a step from the
\* request point that fetched no page (the request failed) increments the
\* attempt index and leaves start and total as they were, the process being
\* back at the request point for the same offset.
C1_CursorOnlyAfterPage ==
  [][ /\ (InStream /\ start' # start) =>
           /\ pc = "yield" /\ pos > Len(entries)
           /\ pagesLog # <<>> /\ LastPage.start = start
           /\ start' = start + PAGE
      /\ (pc = "search" /\ pagesLog' = pagesLog) =>
           /\ i' = Fold(i + 1)
           /\ start' = start /\ total' = total
           /\ pc' = "search"
           /\ lastReq'.start = start ]_vars

C1_Witness ==
  pc = "search" /\ fails > 0 /\ start = 2 * PAGE

\* C2 as stated: when the first page reports the size T of the result set,
\* the stream yields the T records in ceil(T/PAGE) fetches, and no request
\* is made once start >= T.
C2_Original ==
  LET T == ResultCount(aid)
  IN  /\ (pc = "sort" /\ pagesLog[1].total = Some(T)) =>
           /\ yieldLog = [k \in 1..T |-> k]
           /\ Len(pagesLog) = CeilDiv(T, PAGE)
      /\ (pc = "search" /\ pagesLog # <<>> /\ pagesLog[1].total = Some(T)) =>
           start < T

\* C2 (amended): as C2, with max(1, ceil(T/PAGE)) fetches: an empty result
\* set costs the one fetch that reports it.  The k-th page holds
\* min(PAGE, T - PAGE*(k-1)) records.
C2_PaginationExact ==
  LET T == ResultCount(aid)
  IN  /\ (pc = "sort" /\ pagesLog[1].total = Some(T)) =>
           /\ yieldLog = [k \in 1..T |-> k]
           /\ Len(pagesLog) = Max(1, CeilDiv(T, PAGE))
           /\ \A k \in 1..Len(pagesLog) :
                /\ pagesLog[k].start = PAGE * (k - 1)
                /\ pagesLog[k].n = Max(0, Min(PAGE, T - PAGE * (k - 1)))
      /\ (pc = "search" /\ pagesLog # <<>> /\ pagesLog[1].total = Some(T)) =>
           start < T

C2_Witness ==
  /\ pc = "sort"
  /\ pagesLog[1].total = Some(ResultCount(aid))
  /\ PageSizes = <<PAGE, 22>>
  /\ Len(yieldLog) = 47

\* C3: while no response has given a usable total, a further request is
\* made only after full pages, and the stream ends right after the first
\* page shorter than PAGE (an empty one included), every entry of every
\* page having been yielded; page sizes 25, 25, 10 give 3 fetches and 60
\* records.
C3_StopsAtShortPage ==
  /\ (pc = "search" /\ IsNone(total)) =>
        \A k \in 1..Len(pagesLog) : pagesLog[k].n = PAGE
  /\ (pc = "sort" /\ IsNone(total)) =>
        /\ pagesLog # <<>>
        /\ LastPage.n < PAGE
        /\ \A k \in 1..(Len(pagesLog) - 1) : pagesLog[k].n = PAGE
        /\ Len(pagesLog) = (ResultCount(aid) \div PAGE) + 1
        /\ yieldLog = [k \in 1..ResultCount(aid) |-> k]

C3_Witness ==
  /\ pc = "sort" /\ IsNone(total)
  /\ PageSizes = <<PAGE, PAGE, 10>>
  /\ Len(yieldLog) = 60

\* C4: every search request presents the credential at index
\* (failed requests so far in the stream) mod (pool size); the attempt index
\* is that number of failures, so a fetched page leaves the credential as
\* it was; a stream begins with attempt 0 and offset 0; and the pool is the
\* parsed credential string from startup on.
C4_KeyIsAttemptModPool ==
  /\ lastReq.kind = "search" =>
       lastReq.key = API_KEYS[(lastReq.nfail % Len(API_KEYS)) + 1]
  /\ InStream => i = fails
  /\ (pc = "search" /\ pagesLog = <<>> /\ fails = 0) => (i = 0 /\ start = 0)
  /\ pc # "import" => API_KEYS = _parse_api_keys(envval)

C4_Witness ==
  /\ lastReq.kind = "search"
  /\ Len(API_KEYS) = 2
  /\ lastReq.nfail = 3
  /\ lastReq.key = API_KEYS[2]
  /\ pagesLog # <<>>

\* C5: a step from the request point of the paginator leads back to the
\* request point or to the yielding of a fetched page, never to an exit;
\* when no page was fetched the next request is for the same offset with
\* the next credential of the rotation; and at the request point a failure
\* can always be absorbed again, whatever the number of failures so far.
C5_SearchFailureNeverSurfaces ==
  [][ pc = "search" =>
        /\ pc' \in {"search", "yield"}
        /\ pagesLog' = pagesLog =>
             /\ pc' = "search"
             /\ start' = start
             /\ _key(i') = API_KEYS[((lastReq'.nfail + 1) % Len(API_KEYS)) + 1]
             /\ ENABLED SearchFail ]_vars

C5_Witness ==
  pc = "search" /\ fails = MaxAttempt /\ pagesLog = <<>> /\ Len(API_KEYS) = 2

\* what the author loop has seen of the profile calls
AllProfilesFailed == \A k \in 1..Len(metricsLog) : metricsLog[k].failed
NoneResolved == \A k \in 1..Len(metricsLog) : IsNone(metricsLog[k].resolved)

C9_AllFailEndsGlobalEmpty ==
  <>( \/ _parse_api_keys(envval) = <<>>
      \/ ReadRoster(rosterFile) = <<>>
      \/ pagesLog # <<>>
      \/ ~AllProfilesFailed
      \/ pc = "SystemExit_empty" )

\* C10: when the parsed credential list is empty, or no roster row has both
\* an author identifier and a name, the process ends with the configuration
\* exit, and at that exit no request of any kind has been sent and no file
\* has been written.
NoUsableRow ==
  \A k \in 1..Len(rosterFile) :
    Strip(rosterFile[k].author_id, Space) = <<>> \/ Strip(rosterFile[k].name, Space) = <<>>
C10_ConfigErrorsBeforeNetwork ==
  /\ (pc # "import" /\ _parse_api_keys(envval) = <<>>) => pc = "SystemExit_keys"
  /\ (pc \notin {"import", "main"} /\ _parse_api_keys(envval) # <<>> /\ NoUsableRow)
       => pc = "SystemExit_roster"
  /\ pc \in {"SystemExit_keys", "SystemExit_roster"} =>
       /\ issued = {}
       /\ lastReq = NoReq
       /\ files = {}
  /\ pc = "SystemExit_keys" => _parse_api_keys(envval) = <<>>
  /\ pc = "SystemExit_roster" => NoUsableRow

C10_Witness ==
  pc = "SystemExit_roster" /\ Len(rosterFile) > 0 /\ Len(API_KEYS) = 2

\* the entry main's loop is at, and whether the filter keeps it
CurrentIt == Raw(entries[pos])
CurrentKept == Keep(CurrentIt, KeepAll(args.types), Include(args.types))

InLoop == pc \in {"search", "yield", "fetch_authors", "sort", "metrics"}
Exported == IF pc \in {"metrics", "write", "exit_ok", "SystemExit_empty"}
            THEN idx ELSE idx - 1
ExportsOf(n) == { CsvPath(args.out, authors[k][2]) : k \in 1..n }

\* C12 as stated: while the author loop has not finished, this run has
\* written no file.
C12_Original == InLoop => files = {}

\* C12 (amended): the combined and the metrics output are written only after
\* the last author was processed; the per-author export is written inside
\* the loop, right after that author's rows are sorted.  So while the loop
\* runs, and when the run ends in it with an exception, the files written
\* are exactly the exports of the authors harvested so far; before the loop
\* there are none.
C12_OnlyExportsBeforeEnd ==
  /\ pc \in {"import", "main", "SystemExit_keys", "SystemExit_roster"} => files = {}
  /\ (InLoop \/ pc \in {"write", "Traceback"}) => files = ExportsOf(Exported)
  /\ pc \in {"exit_ok", "SystemExit_empty"} =>
       /\ ExportsOf(Len(authors)) \cup {args.combined} \subseteq files
       /\ files \subseteq ExportsOf(Len(authors)) \cup {args.combined, args.metrics}
       /\ args.metrics \in files <=> ~IsNone(first_metrics)

C12_Witness ==
  /\ pc = "Traceback"
  /\ idx = 2
  /\ files = {CsvPath(args.out, authors[1][2])}
  /\ combined # <<>>

\* the allow-list read off the option string: its entries are the pieces
\* between commas, blanks around them dropped, that are not empty
EntriesOf(types) ==
  { Strip(SubSeq(types, a, b), Space) :
      <<a, b>> \in { ab \in (1..(Len(types) + 1)) \X (0..Len(types)) :
                       /\ ab[2] >= ab[1] - 1
                       /\ ab[1] = 1 \/ types[ab[1] - 1] = ","
                       /\ ab[2] = Len(types) \/ types[ab[2] + 1] = ","
                       /\ \A k \in ab[1]..ab[2] : types[k] # "," } } \ {<<>>}
IsWildcard(types) == Strip(types, Space) = <<"*">>
\* e occurs in d, letter case ignored
OccursIgnoringCase(e, d) ==
  \E off \in 0..(Len(d) - Len(e)) :
    \A j \in 1..Len(e) : LowerChar(e[j]) = LowerChar(d[off + j])
\* the step of main's loop drops the entry it is at
DropsCurrent == pc' = "yield" /\ pos' = pos + 1 /\ rows' = rows

\* C13 as stated: a record is kept exactly when the allow-list is "*", or an
\* entry occurs, case ignored, in the record's category description, or
\* the record's category code is "cp".
C13_Original ==
  [][ (pc = "yield" /\ pos <= Len(entries)) =>
        ( ~DropsCurrent <=>
            \/ IsWildcard(args.types)
            \/ /\ Truthy(CurrentIt.subtypeDescription)
               /\ \E e \in EntriesOf(args.types) :
                    OccursIgnoringCase(e, Val(CurrentIt.subtypeDescription))
            \/ CurrentIt.subtype = Some(<<"c", "p">>) ) ]_vars

\* C13 (amended): a record is kept exactly when the allow-list is "*", or an
\* entry occurs, case ignored, in the record's category description or,
\* for a record without a description, in its category code, or the
\* category code, put in lower case, is "cp".  Allow-list "Article" keeps
\* an Article and a conference paper and drops a Note; "*" keeps all.
C13_CategoryFilter ==
  [][ (pc = "yield" /\ pos <= Len(entries)) =>
        ( ~DropsCurrent <=>
            \/ IsWildcard(args.types)
            \/ \E e \in EntriesOf(args.types) :
                 OccursIgnoringCase(e,
                   IF Truthy(CurrentIt.subtypeDescription)
                   THEN Val(CurrentIt.subtypeDescription)
                   ELSE OrEmpty(CurrentIt.subtype))
            \/ /\ Truthy(CurrentIt.subtype)
               /\ Len(Val(CurrentIt.subtype)) = 2
               /\ OccursIgnoringCase(Val(CurrentIt.subtype), <<"c", "p">>) ) ]_vars

C13_Witness ==
  /\ args.types = <<"A", "r", "t", "i", "c", "l", "e">>
  /\ pc = "yield" /\ pos = 4
  /\ yieldLog = <<1, 2, 3>>
  /\ Len(rows) = 2
  /\ rows[1].type = Some(<<"A", "r", "t", "i", "c", "l", "e">>)
  /\ rows[2].subtype = Some(<<"c", "p">>)

\* the order of the claim: a ranks below b
RealYear(r) == ~IsNone(r.year) /\ IsDigitStr(Val(r.year))
YearBelow(a, b) ==
  \/ ~RealYear(a) /\ RealYear(b)
  \/ RealYear(a) /\ RealYear(b) /\ ToInt(Val(a.year)) < ToInt(Val(b.year))
YearSame(a, b) ==
  \/ ~RealYear(a) /\ ~RealYear(b)
  \/ RealYear(a) /\ RealYear(b) /\ ToInt(Val(a.year)) = ToInt(Val(b.year))
MonthBelow(a, b) ==
  \/ IsNone(a.month) /\ ~IsNone(b.month)
  \/ ~IsNone(a.month) /\ ~IsNone(b.month) /\ StrLess(Val(a.month), Val(b.month))
RanksBelow(a, b) ==
  \/ YearBelow(a, b)
  \/ /\ YearSame(a, b)
     /\ \/ MonthBelow(a, b)
        \/ a.month = b.month /\ StrLess(a.title, b.title)
Descending(rs) ==
  \A j, k \in 1..Len(rs) : j < k => ~RanksBelow(rs[j], rs[k])
Occurrences(rs, x) == Cardinality({k \in 1..Len(rs) : rs[k] = x})
IsPermutation(rs, qs) ==
  /\ Len(rs) = Len(qs)
  /\ \A k \in 1..Len(rs) : Occurrences(rs, rs[k]) = Occurrences(qs, rs[k])
YearMonth(rs) == [k \in 1..Len(rs) |-> <<rs[k].year, rs[k].month>>]

\* C14: the sort step leaves the author's rows in descending order of
\* (year, a missing or non-numeric one below every real year; month, a
\* missing one lowest; title), and the sorted list is a permutation of the
\* list before the step; rows of (2020,"03"), (2019,"01"), (2020,"11") come
\* out as (2020,"11"), (2020,"03"), (2019,"01").
C14_SortedDescending ==
  [][ pc = "sort" => /\ Descending(rows')
                     /\ IsPermutation(rows, rows')
                     /\ pc' = "metrics" ]_vars

C14_Witness ==
  /\ pc = "metrics"
  /\ YearMonth(rows) =
       << <<Some(<<"2", "0", "2", "0">>), Some(<<"1", "1">>)>>,
          <<Some(<<"2", "0", "2", "0">>), Some(<<"0", "3">>)>>,
          <<Some(<<"2", "0", "1", "9">>), Some(<<"0", "1">>)>>,
          <<None, None>> >>
  /\ yieldLog = <<1, 2, 3, 4, 5>>

\* the position in the roster of the author a row of combined is tagged with
RosterIndex(r) ==
  CHOOSE k \in 1..Len(authors) :
    authors[k][1] = r.author_id /\ authors[k][2] = r.author_name
Tagged(r) ==
  \E k \in 1..Len(authors) :
    authors[k][1] = r.author_id /\ authors[k][2] = r.author_name

\* C15: the author loop goes through the roster one position at a time,
\* beginning at the first; combined changes only in the step that ends an
\* author's harvest, by that author's sorted rows being appended, each row
\* tagged with that author's identifier and name; so at every point the
\* rows of combined are tagged with authors already harvested and a row of a
\* later author never precedes a row of an earlier one.
C15_CombinedInRosterOrder ==
  [][ /\ idx' = idx \/ (idx' = idx + 1 /\ pc' = "search" /\ rows' = <<>>)
      /\ combined' # combined =>
           /\ pc = "sort"
           /\ combined' = combined \o rows'
           /\ Descending(rows') /\ IsPermutation(rows, rows')
           /\ \A k \in 1..Len(rows') :
                /\ rows'[k].author_id = authors[idx][1]
                /\ rows'[k].author_name = authors[idx][2]
      /\ \A k \in 1..Len(combined') :
           /\ Tagged(combined'[k])
           /\ RosterIndex(combined'[k]) <= Exported'
      /\ \A j, k \in 1..Len(combined') :
           j < k => RosterIndex(combined'[j]) <= RosterIndex(combined'[k])
      /\ authors' # authors => (pc = "main" /\ authors' = ReadRoster(rosterFile)) ]_vars

C15_Witness ==
  /\ pc = "write"
  /\ Len(authors) = 2
  /\ Len(combined) > 3
  /\ RosterIndex(combined[1]) = 1
  /\ RosterIndex(combined[Len(combined)]) = 2
  /\ rosterFile = <<Row73, Row71>>

\* the tokens of a credential string, read off the string itself: the
\* maximal runs of characters that are not brackets, quotes, blanks or commas
Delimiters == Brackets \cup SQuote \cup DQuote \cup Space \cup {","}
TokenStarts(env) ==
  {a \in 1..Len(env) : env[a] \notin Delimiters /\ (a = 1 \/ env[a - 1] \in Delimiters)}
TokenEnds(env) ==
  {b \in 1..Len(env) : env[b] \notin Delimiters /\ (b = Len(env) \/ env[b + 1] \in Delimiters)}
TokensOf(env) ==
  CHOOSE r \in
    { [k \in 1..Cardinality(ss) |-> SubSeq(env, Nth(ss, k), Nth(es, k))] :
        ss \in {TokenStarts(env)}, es \in {TokenEnds(env)} } : TRUE
WellFormed(t) == Len(t) = KEYLEN /\ \A k \in 1..Len(t) : IsHexChar(t[k])
WellFormedTokens(env) ==
  CHOOSE r \in
    { [k \in 1..Len(kept) |-> Lower(kept[k])] :
        kept \in {SelectSeq(TokensOf(env), WellFormed)} } : TRUE

\* C16 as stated: once the credential string is parsed, the pool is the
\* string's well-formed tokens (32 hexadecimal characters), in lower case and
\* in their order, whatever brackets, quotes, blanks and commas stand
\* between them; and the run stops with the configuration error exactly
\* when there is none.
C16_PoolIsTheWellFormedTokens ==
  pc \in {"main", "SystemExit_keys"} =>
    /\ API_KEYS = WellFormedTokens(envval)
    /\ pc = "SystemExit_keys" <=> WellFormedTokens(envval) = <<>>

\* the names of the record-detail response
NamesServed == <<"B A.", "G H.">>
\* the row a step of the enrichment leaves at the end of rows
NewRow == rows'[Len(rows')]

\* C17: while a record is being enriched, fewer than 4 requests have failed
\* for it; each step of the enrichment sends one detail request with the
\* first credential; a failed request leads to another attempt and changes
\* nothing else, or, being the 4th, ends the enrichment with no names; a
\* served request ends it at once with the names of the response.  The
\* enrichment always ends by main going on with the record (its row is built:
\* an exception at that point is normalize's): the row differs from the one
\* built without names in the author list at most.
C17_EnrichmentIsBoundedRetry ==
  [][ pc = "fetch_authors" =>
        /\ tries \in 0..3
        /\ lastReq' = Req("detail", API_KEYS[1], 0, 0)
        /\ \/ /\ pc' = "fetch_authors"
              /\ tries' = tries + 1 /\ tries' < 4
              /\ rows' = rows /\ pos' = pos
           \/ /\ pc' = "yield"
              /\ pos' = pos + 1 /\ tries' = 0
              /\ Len(rows') = Len(rows) + 1
              /\ SubSeq(rows', 1, Len(rows)) = rows
              /\ \/ NewRow.authors = NamesServed
                 \/ NewRow.authors = <<>> /\ tries = 3
              /\ [NewRow EXCEPT !.authors = <<>>] = RowOf(CurrentIt, <<>>)
           \/ /\ pc' = "Traceback"
              /\ normalize_Raises(CurrentIt) ]_vars

C17_Witness ==
  /\ pc = "yield"
  /\ args.details
  /\ Len(rows) = 2
  /\ rows[1].authors = <<>> /\ rows[1].eid = <<"e", "1">>
  /\ rows[2].authors = NamesServed

\* C18: a detail request is sent only from the enrichment of a record, and
\* the enrichment of a record is entered only from main's loop body, with
\* the option on, for a record the filter keeps and that has an identifier;
\* so with the option off no detail request is ever sent, and every row
\* built with the option off or for a record without identifier has an
\* empty author list; a record the filter drops causes no request and gets
\* no row.
C18_EnrichmentGated ==
  [][ /\ (pc' = "fetch_authors" /\ pc # "fetch_authors") =>
           /\ pc = "yield"
           /\ args.details
           /\ CurrentKept
           /\ CurrentIt.eid # None /\ CurrentIt.eid # Some(<<>>)
      /\ (lastReq'.kind = "detail" /\ lastReq' # lastReq) => pc = "fetch_authors"
      /\ "detail" \in issued' => args.details
      /\ \A k \in 1..Len(rows') :
           (~args.details \/ rows'[k].eid = <<>>) => rows'[k].authors = <<>>
      /\ (pc = "yield" /\ pos <= Len(entries) /\ ~CurrentKept) =>
           /\ rows' = rows /\ issued' = issued /\ lastReq' = lastReq
           /\ pc' = "yield" ]_vars

C18_Witness ==
  /\ pc = "yield"
  /\ args.details
  /\ args.types = TypesDefault
  /\ yieldLog = <<1, 2, 3>> /\ pos = 4
  /\ Len(rows) = 2
  /\ rows[1].authors = NamesServed
  /\ rows[2].eid = <<>> /\ rows[2].authors = <<>>
  /\ lastReq.kind = "detail"

\* C19 as stated: in every row built by normalize the display link is there
\* only if the record has an identifier and the DOI link only if it has a
\* DOI, a record without them getting None.  (The title and the author list
\* of a row are a str and a list, "" and [] standing in: they are no
\* optional values in a row.)
C19_LinksOnlyWhenIdentified ==
  \A k \in 1..Len(rows) :
    /\ rows[k].eid = <<>> => rows[k].scopus_url = None
    /\ ~Truthy(rows[k].doi) => rows[k].doi_url = None

\* the count of the first page of the stream that reported a number
Reported(k) == pagesLog[k].reported
FirstObserved ==
  IF \E k \in 1..Len(pagesLog) : Reported(k) # None
  THEN Reported(CHOOSE k \in 1..Len(pagesLog) :
                  Reported(k) # None /\ \A j \in 1..(k - 1) : Reported(j) = None)
  ELSE None

\* C20: within a stream, once total is a number no step changes it, whatever
\* count a later page reports: total is the count of the first page that
\* reported a number; and after a page the stream ends, total being a
\* number, exactly when the next offset has reached that first count or
\* the page was empty.
C20_TotalIsWriteOnce ==
  [][ /\ (InStream /\ total # None) => total' = total
      /\ InStream => total = FirstObserved
      /\ (pc = "yield" /\ pos > Len(entries) /\ total # None) =>
           (pc' = "sort" <=> (start + 25 >= Val(FirstObserved) \/ Len(entries) = 0)) ]_vars

C20_Witness ==
  /\ pc = "search"
  /\ Len(pagesLog) = 3
  /\ total = Some(85)
  /\ Reported(1) = Some(85)
  /\ Reported(2) = Some(60)
  /\ start = 75

\* the authors, by roster position, whose profile call was served
Served == {k \in 1..Len(metricsLog) : ~metricsLog[k].failed}
FirstServed == CHOOSE k \in Served : \A j \in Served : k <= j

\* C21: the retained metrics are None while no author's profile call was
\* served, and from then on the metrics of the first author of the roster
\* whose call was served; once set they are never changed; and the metrics
\* file is written, at the end of the run, exactly when some call was served,
\* and not before.
C21_FirstResolvedMetricsKept ==
  [][ /\ first_metrics # None => first_metrics' = first_metrics
      /\ Served = {} => first_metrics = None
      /\ Served # {} =>
           /\ first_metrics = metricsLog[FirstServed].resolved
           /\ Val(first_metrics).author_id = authors[FirstServed][1]
      /\ args.metrics \in files' =>
           /\ pc' \in {"exit_ok", "SystemExit_empty"}
           /\ Served # {}
      /\ pc' = "exit_ok" => (args.metrics \in files' <=> Served # {})
      /\ pc' = "SystemExit_empty" => Served = {} ]_vars

C21_Witness ==
  /\ pc = "exit_ok"
  /\ Len(metricsLog) = 2
  /\ Served = {1, 2}
  /\ Val(first_metrics).author_id = authors[1][1]
  /\ metricsLog[2].resolved # first_metrics
  /\ args.metrics \in files

\* the n-th component of a date: what stands between its (n-1)-th and n-th
\* dash, None if the date has fewer than n - 1 dashes
DashesOf(d) == {k \in 1..Len(d) : d[k] = "-"}
ComponentOf(d, n) ==
  IF Cardinality(DashesOf(d)) < n - 1 THEN None
  ELSE Some(SubSeq(d,
                   IF n = 1 THEN 1 ELSE Nth(DashesOf(d), n - 1) + 1,
                   IF Cardinality(DashesOf(d)) < n THEN Len(d)
                   ELSE Nth(DashesOf(d), n) - 1))
\* a month or day component as returned: None if missing or empty, else
\* with zeros in front up to two characters
Padded(c) ==
  IF c = None \/ c = Some(<<>>) THEN None
  ELSE IF Len(Val(c)) = 1 THEN Some(<<"0", Val(c)[1]>>)
  ELSE c

\* C22: parts() returns for every cover date: for an empty one (None, None,
\* None); else the year component as given, and the month and the day
\* component with zeros in front up to two characters, None standing for a
\* month or day that is missing (year only, year and month) or empty.
C22_DateDecomposition ==
  pc = "parts_done" =>
    /\ ymd # None
    /\ date = <<>> => Val(ymd) = [y |-> None, m |-> None, d |-> None]
    /\ date # <<>> =>
         /\ Val(ymd).y = ComponentOf(date, 1)
         /\ Val(ymd).m = Padded(ComponentOf(date, 2))
         /\ Val(ymd).d = Padded(ComponentOf(date, 3))

C22_Witness ==
  /\ pc = "parts_done"
  /\ date = <<"1", "9", "-", "9", "-">>
  /\ Val(ymd) = [y |-> Some(<<"1", "9">>), m |-> Some(<<"0", "9">>), d |-> None]

\* the entries of the first n served pages of the stream, one after another
RECURSIVE ServedUpTo(_)
ServedUpTo(n) ==
  IF n = 0 THEN <<>> ELSE ServedUpTo(n - 1) \o pagesLog[n].entries
\* what the stream has yielded when all is well: the pages before the
\* current one, and of the current one the entries gone through
YieldedSoFar ==
  CASE pc = "yield" ->
         ServedUpTo(Len(pagesLog) - 1) \o SubSeq(LastPage.entries, 1, pos - 1)
    [] pc = "fetch_authors" ->
         ServedUpTo(Len(pagesLog) - 1) \o SubSeq(LastPage.entries, 1, pos)
    [] OTHER -> ServedUpTo(Len(pagesLog))

\* C23: in a stream, whatever requests failed in between, the k-th served
\* page is the one of offset 25 * (k - 1), so every offset is served once
\* and in order; what has been yielded is the entries of the served pages
\* one after another in that order, each once; and a failed request yields
\* nothing and serves nothing.
C23_NoLossNoDuplication ==
  [][ /\ (pc = "search" /\ pagesLog' = pagesLog) =>
           /\ yieldLog' = yieldLog
           /\ pc' = "search" /\ start' = start
      /\ (pc \in {"search", "yield", "fetch_authors", "sort"}) =>
           /\ \A k \in 1..Len(pagesLog) : pagesLog[k].start = 25 * (k - 1)
           /\ yieldLog = YieldedSoFar
           /\ pc = "search" => start = 25 * Len(pagesLog) ]_vars

C23_Witness ==
  /\ pc = "sort"
  /\ Len(pagesLog) = 3
  /\ fails = 3
  /\ lastReq.start = 50 /\ lastReq.nfail = 3
  /\ yieldLog = [k \in 1..60 |-> k]

====
